---- MODULE Spec2Model ----
(***************************************************************************)
(* Model of src/checkers/jsonchecker.py: the jq query evaluator            *)
(* (query_json), the sequential query resolver (query_sequence), the       *)
(* timestamp normalizer (parse_timestamp) and JSONChecker.check with its   *)
(* two flows (_check_data, _check_git).                                    *)
(*                                                                         *)
(* Text is modelled as a sequence of tokens.  "T" stands for a complete    *)
(* ISO-8601 date-time literal without offset (2023-05-01T00:00:00), "Z"    *)
(* and "+00:00" for the two spellings of the UTC offset, " " and "\n" for  *)
(* whitespace.  A jq query string is a sequence of jq tokens.              *)
(***************************************************************************)
EXTENDS Naturals, Sequences, FiniteSets, TLC

(* ------------------------------ bounds --------------------------------- *)

\* longest text handed to parse_timestamp / returned by a query in the
\* pure-function specifications
MaxStrLen == 3
\* longest string value inside a fetched JSON document (check flows)
DocStrLen == 1
\* longest query plan handed directly to query_sequence
MaxPlanLen == 2

(* ------------------------------- text ---------------------------------- *)

\* Python's None (a tuple no text can equal: "None" is no token of a text)
None == <<"None">>

Whitespace == {" ", "\n"}

Chars == {"T", "Z", "+00:00"} \cup Whitespace

Strings(alphabet, n) == UNION {[1..k -> alphabet] : k \in 0..n}

RECURSIVE LStrip(_)
LStrip(s) ==
    IF s # <<>> /\ Head(s) \in Whitespace THEN LStrip(Tail(s)) ELSE s

RECURSIVE RStrip(_)
RStrip(s) ==
    IF s # <<>> /\ s[Len(s)] \in Whitespace
    THEN RStrip(SubSeq(s, 1, Len(s) - 1))
    ELSE s

\* str.strip()
Strip(s) == RStrip(LStrip(s))

(* ---------------------------- JSON values ------------------------------ *)

JString(s) == [type |-> "string", text |-> s]

\* one value of every non-string JSON type, with its JSON text
JNumber == [type |-> "number", text |-> <<"1">>]
JTrue == [type |-> "boolean", text |-> <<"true">>]
JFalse == [type |-> "boolean", text |-> <<"false">>]
JNull == [type |-> "null", text |-> <<"null">>]
JArray == [type |-> "array", text |-> <<"[", "]">>]
JObject == [type |-> "object", text |-> <<"{", "}">>]

JsonValues(alphabet, n) ==
    {JString(s) : s \in Strings(alphabet, n)}
        \cup {JNumber, JTrue, JFalse, JNull, JArray, JObject}

Fields == {"x", "y"}

\* The bytes read from the response: a JSON object with the fields x and y,
\* or bytes that are no JSON at all.
NotJson == [json |-> FALSE, obj |-> [f \in Fields |-> JNull]]

Docs(values) ==
    {[json |-> TRUE, obj |-> o] : o \in [Fields -> values]} \cup {NotJson}

(* ---------------------------- query_json ------------------------------- *)

ResultKeys == {"tag", "commit", "version", "url", "timestamp"}

\* jq tokens of a query: a path into the document, a reference to a named
\* variable, the filter that yields no output, a token that is no jq program
PathToken == [x |-> ".x", y |-> ".y"]
VarToken == [tag |-> "$tag", commit |-> "$commit", version |-> "$version",
             url |-> "$url", timestamp |-> "$timestamp"]
PathTokens == {PathToken[f] : f \in Fields}
VarTokens == {VarToken[k] : k \in ResultKeys}

\* typecheck_q of query_json
typecheck_q == "if $rt==string or $rt==number then . else error($rt) end"

\* mutant of JqCmd: the --arg bindings are left out of the command
JqCmdNoArgs(query, variables) ==
    [args |-> [k \in {} |-> <<>>],
     raw |-> TRUE,
     exit_status |-> TRUE,
     filter |-> <<"(">> \o query \o <<")", "|", "(", typecheck_q, ")">>]

\* jq_cmd: the --arg bindings, the flags -r and -e, and the filter
\* "( {query} ) | ( {typecheck_q} )"
JqCmd(query, variables) ==
    [args |-> variables,
     raw |-> TRUE,
     exit_status |-> TRUE,
     filter |-> <<"(">> \o query \o <<")", "|", "(", typecheck_q, ")">>]

\* jq's compilation of the filter: the query inside the first parentheses,
\* or a syntax error.  A variable that is not bound is a compile error.
JqCompiles(cmd) ==
    /\ Len(cmd.filter) = 7
    /\ cmd.filter[1] = "(" /\ cmd.filter[3] = ")" /\ cmd.filter[4] = "|"
    /\ cmd.filter[5] = "(" /\ cmd.filter[6] = typecheck_q /\ cmd.filter[7] = ")"
    /\ cmd.filter[2] \in PathTokens \cup VarTokens \cup {"empty"}
    /\ \A k \in ResultKeys : cmd.filter[2] = VarToken[k] => k \in DOMAIN cmd.args

\* the outputs of the user's query on the document (at most one here)
JqQueryOutputs(cmd, data) ==
    LET q == cmd.filter[2] IN
    IF q \in PathTokens
    THEN <<data.obj[CHOOSE f \in Fields : PathToken[f] = q]>>
    ELSE IF q \in VarTokens
    THEN <<JString(cmd.args[CHOOSE k \in ResultKeys : VarToken[k] = q])>>
    ELSE <<>>

\* mutant of TypecheckPasses: the assertion lets a boolean through
TypecheckPassesBoolean(v) ==
    v.type = "string" \/ v.type = "number" \/ v.type = "boolean"

\* the type assertion appended to every query
TypecheckPasses(v) == v.type = "string" \/ v.type = "number"

\* jq -r prints a string raw and any other value as JSON, each on a line
JqPrint(cmd, v) ==
    (IF v.type = "string" /\ ~cmd.raw
     THEN <<"\"">> \o v.text \o <<"\"">>
     ELSE v.text) \o <<"\n">>

\* The query process: exit status and standard output.
\* 2: the input is no JSON; 3: the filter does not compile; 5: error()
\* raised by the type assertion; with -e, 4: no output was produced,
\* 1: the last output was false or null.
JqProcess(cmd, data) ==
    IF ~JqCompiles(cmd) THEN [exit |-> 3, stdout |-> <<>>]
    ELSE IF ~data.json THEN [exit |-> 2, stdout |-> <<>>]
    ELSE LET outs == JqQueryOutputs(cmd, data) IN
         IF outs = <<>>
         THEN [exit |-> IF cmd.exit_status THEN 4 ELSE 0, stdout |-> <<>>]
         ELSE IF ~TypecheckPasses(outs[1]) THEN [exit |-> 5, stdout |-> <<>>]
         ELSE [exit |-> IF cmd.exit_status /\ outs[1] \in {JFalse, JNull}
                        THEN 1 ELSE 0,
               stdout |-> JqPrint(cmd, outs[1])]

\* utils.Command(jq_cmd).run(data): CalledProcessError on a nonzero exit
CommandRun(cmd, data) ==
    LET p == JqProcess(cmd, data) IN
    IF p.exit # 0
    THEN [raised |-> "CalledProcessError", stdout |-> <<>>]
    ELSE [raised |-> "none", stdout |-> p.stdout]

\* what query_json does with the finished process
QueryJsonResult(run) ==
    IF run.raised = "CalledProcessError"
    THEN [raised |-> "CheckerQueryError", value |-> None]
    ELSE IF run.raised # "none"
    THEN [raised |-> run.raised, value |-> None]
    ELSE [raised |-> "none", value |-> Strip(run.stdout)]

query_json(query, data, variables) ==
    QueryJsonResult(CommandRun(JqCmd(query, variables), data))

(* -------------------------- parse_timestamp ---------------------------- *)

\* mutant of ReSubZ: the trailing Z is not rewritten
ReSubNothing(s) == s

\* re.sub(r"Z$", "+00:00", s): $ matches at the end of the string and
\* just before a newline that ends the string
ReSubZ(s) ==
    LET n == Len(s) IN
    IF n >= 1 /\ s[n] = "Z"
    THEN SubSeq(s, 1, n - 1) \o <<"+00:00">>
    ELSE IF n >= 2 /\ s[n] = "\n" /\ s[n - 1] = "Z"
    THEN SubSeq(s, 1, n - 2) \o <<"+00:00", "\n">>
    ELSE s

Datetime(tz) == <<"datetime", "T", tz>>

\* datetime.fromisoformat: a date-time literal, optionally followed by a
\* numeric offset; anything else is a ValueError
fromisoformat(s) ==
    IF s = <<"T">> THEN [raised |-> "none", value |-> Datetime("naive")]
    ELSE IF s = <<"T", "+00:00">>
    THEN [raised |-> "none", value |-> Datetime("+00:00")]
    ELSE [raised |-> "ValueError", value |-> None]

parse_timestamp(date_string) ==
    IF date_string = None THEN [raised |-> "none", value |-> None]
    ELSE LET r == fromisoformat(ReSubZ(date_string)) IN
         IF r.raised = "ValueError"
         THEN [raised |-> "CheckerQueryError", value |-> None]
         ELSE r

(* ------------------------------ state ---------------------------------- *)

VARIABLES
    entry,          \* the function that was called
    kind,           \* class of external_data: "data" or "git"
    eligible,       \* self.should_check(external_data)
    checker_data,   \* external_data.checker_data
    arg,            \* the argument of a direct call of a pure function
    pc,             \* position in the code
    gets,           \* HTTP GET requests issued
    response,       \* the response of the GET: "none", "open" or "closed"
    json_data,      \* the bytes read from the response
    queries,        \* query_sequence: the plan
    i,              \* query_sequence: position of the for loop in the plan
    results,        \* query_sequence: the accumulated mapping
    procs,          \* jq processes in flight
    jq_calls,       \* every invocation of the evaluator so far
    exits,          \* the exit status of every finished jq process
    seq_ret,        \* what query_sequence returned to its caller
    new_version,    \* _check_git: the ExternalGitRef
    handoffs,       \* calls of _update_version, fetch_remote, set_new_version
    ret,            \* how the called function ended
    tasks           \* the frames of the other invocations, suspended

vars == <<entry, kind, eligible, checker_data, arg, pc, gets, response,
          json_data,
          queries, i, results, procs, jq_calls, exits, seq_ret,
          new_version, handoffs, ret, tasks>>

NoData == [none |-> TRUE]
NoRef == [none |-> TRUE]
EmptyDict == [k \in {} |-> None]
Pending == [raised |-> "pending", value |-> None]
Returned(v) == [raised |-> "none", value |-> v]
Raised(e) == [raised |-> e, value |-> None]

\* d[key] = value on a dict
DictSet(d, key, value) ==
    [k \in DOMAIN d \cup {key} |-> IF k = key THEN value ELSE d[k]]

\* d.get(key)
DictGet(d, key) == IF key \in DOMAIN d THEN d[key] ELSE None

QueryOptions ==
    {"tag-query", "commit-query", "version-query", "url-query", "timestamp-query"}

\* CHECKER_DATA_SCHEMA: every query is a string when present; version-query
\* and url-query are both present, or tag-query is ("url" is always given)
CHECKER_DATA_SCHEMA(cd) ==
    \/ cd["version-query"] # None /\ cd["url-query"] # None
    \/ cd["tag-query"] # None

\* the query strings of the configurations explored
FlowQueries == {<<>>, <<".x">>, <<".y">>, <<"$version">>}

\* the option a flow never reads is present or not
UnusedOption == [data |-> "timestamp-query", git |-> "url-query"]

Configurations(k) ==
    {cd \in [QueryOptions -> {None} \cup FlowQueries] :
        /\ CHECKER_DATA_SCHEMA(cd)
        /\ cd[UnusedOption[k]] \in {None, <<".x">>}}

\* the documents a GET may return in the check flows
DocChars == {"T", " "}
FlowDocs ==
    Docs({JString(s) : s \in Strings(DocChars, DocStrLen)} \cup {JNumber, JNull})

\* external_data.current_version.url
current_version_url == <<"https://repo">>

\* the commits ExternalGitRef.fetch_remote may resolve a tag to
RemoteCommits == {<<"c0ffee">>}

ExternalGitRef(url, commit, tag, branch, version, timestamp) ==
    [url |-> url, commit |-> commit, tag |-> tag, branch |-> branch,
     version |-> version, timestamp |-> timestamp]

Init ==
    /\ entry = "check"
    /\ kind \in {"data", "git"}
    /\ eligible \in BOOLEAN
    /\ checker_data \in Configurations(kind)
    /\ arg = None
    /\ pc = "check"
    /\ gets = 0
    /\ response = "none"
    /\ json_data = NoData
    /\ queries = <<>>
    /\ i = 0
    /\ results = EmptyDict
    /\ procs = <<>>
    /\ jq_calls = <<>>
    /\ exits = <<>>
    /\ seq_ret = <<>>
    /\ new_version = NoRef
    /\ handoffs = <<>>
    /\ ret = Pending
    /\ tasks = <<>>

(* ---------------------------- JSONChecker.check ------------------------ *)

\* mutant of HttpGet: the request is issued without the assertion
HttpGetUnasserted ==
    /\ pc = "check"
    /\ gets' = gets + 1
    /\ pc' = "get"
    /\ UNCHANGED <<entry, kind, eligible, checker_data, arg, response,
                   json_data, queries, i, results, procs, jq_calls, exits,
                   seq_ret, new_version, handoffs, ret, tasks>>

\* assert self.should_check(external_data) fails
AssertFails ==
    /\ pc = "check" /\ ~eligible
    /\ pc' = "exit"
    /\ ret' = Raised("AssertionError")
    /\ UNCHANGED <<entry, kind, eligible, checker_data, arg, gets, response,
                   json_data, queries, i, results, procs, jq_calls, exits,
                   seq_ret, new_version, handoffs, tasks>>

\* the assertion holds; self.session.get(json_url) is issued
HttpGet ==
    /\ pc = "check" /\ eligible
    /\ gets' = gets + 1
    /\ pc' = "get"
    /\ UNCHANGED <<entry, kind, eligible, checker_data, arg, response,
                   json_data, queries, i, results, procs, jq_calls, exits,
                   seq_ret, new_version, handoffs, ret, tasks>>

\* the request is answered: the response is open (async with ... as response)
ResponseOpens ==
    /\ pc = "get"
    /\ response' = "open"
    /\ pc' = "read"
    /\ UNCHANGED <<entry, kind, eligible, checker_data, arg, gets, json_data,
                   queries, i, results, procs, jq_calls, exits, seq_ret,
                   new_version, handoffs, ret, tasks>>

\* the documents served when several invocations run
ConcDocs ==
    {d \in FlowDocs : d.json /\ d.obj["x"] \in {JString(<<"T">>), JNumber}
                             /\ d.obj["y"] = JNumber}

\* the documents a GET may return
Bodies == IF tasks = <<>> THEN FlowDocs ELSE ConcDocs

\* json_data = await response.read(); the async with block is left
ResponseRead ==
    /\ pc = "read"
    /\ \E doc \in Bodies : json_data' = doc
    /\ response' = "closed"
    /\ pc' = "dispatch"
    /\ UNCHANGED <<entry, kind, eligible, checker_data, arg, gets, queries, i,
                   results, procs, jq_calls, exits, seq_ret, new_version,
                   handoffs, ret, tasks>>

\* mutant of NetworkError: the transport error is not translated
NetworkErrorUnwrapped ==
    /\ pc \in {"get", "read"}
    /\ response' = IF response = "open" THEN "closed" ELSE response
    /\ pc' = "exit"
    /\ ret' = Raised("ClientError")
    /\ UNCHANGED <<entry, kind, eligible, checker_data, arg, gets, json_data,
                   queries, i, results, procs, jq_calls, exits, seq_ret,
                   new_version, handoffs, tasks>>

\* mutant of NetworkError: the request is tried again after a transport
\* error
NetworkErrorRetried ==
    /\ pc \in {"get", "read"}
    /\ response' = IF response = "open" THEN "closed" ELSE response
    /\ pc' = "check"
    /\ UNCHANGED <<entry, kind, eligible, checker_data, arg, gets, json_data,
                   queries, i, results, procs, jq_calls, exits, seq_ret,
                   new_version, handoffs, ret, tasks>>

\* opening the request or reading the body fails:
\* except NETWORK_ERRORS as err: raise CheckerQueryError from err
NetworkError ==
    /\ pc \in {"get", "read"}
    /\ response' = IF response = "open" THEN "closed" ELSE response
    /\ pc' = "exit"
    /\ ret' = Raised("CheckerQueryError")
    /\ UNCHANGED <<entry, kind, eligible, checker_data, arg, gets, json_data,
                   queries, i, results, procs, jq_calls, exits, seq_ret,
                   new_version, handoffs, tasks>>

(* ---------------------------- query plans ------------------------------ *)

\* mutant of DataPlan: the url entry comes before the version entry
DataPlanUrlFirst(cd) ==
    << <<"tag", cd["tag-query"]>>,
       <<"commit", cd["commit-query"]>>,
       <<"url", cd["url-query"]>>,
       <<"version", cd["version-query"]>> >>

\* the plan _check_data hands to query_sequence
DataPlan(cd) ==
    << <<"tag", cd["tag-query"]>>,
       <<"commit", cd["commit-query"]>>,
       <<"version", cd["version-query"]>>,
       <<"url", cd["url-query"]>> >>

\* the plan _check_git hands to query_sequence
GitPlan(cd) ==
    << <<"tag", cd["tag-query"]>>,
       <<"commit", cd["commit-query"]>>,
       <<"version", cd["version-query"]>>,
       <<"timestamp", cd["timestamp-query"]>> >>

\* the options a flow reads by subscript: a missing one is a KeyError
Subscripted == [data |-> {"version-query", "url-query"}, git |-> {"tag-query"}]

\* isinstance(external_data, ExternalGitRepo) chooses the flow, which
\* builds its plan and calls query_sequence
CallQuerySequence ==
    /\ pc = "dispatch"
    /\ \A o \in Subscripted[kind] : checker_data[o] # None
    /\ queries' = IF kind = "git" THEN GitPlan(checker_data)
                                  ELSE DataPlan(checker_data)
    /\ results' = EmptyDict
    /\ i' = 1
    /\ pc' = "loop"
    /\ UNCHANGED <<entry, kind, eligible, checker_data, arg, gets, response,
                   json_data, procs, jq_calls, exits, seq_ret, new_version,
                   handoffs, ret, tasks>>

\* checker_data["version-query"], ["url-query"] or ["tag-query"] is missing
PlanKeyError ==
    /\ pc = "dispatch"
    /\ \E o \in Subscripted[kind] : checker_data[o] = None
    /\ pc' = "exit"
    /\ ret' = Raised("KeyError")
    /\ UNCHANGED <<entry, kind, eligible, checker_data, arg, gets, response,
                   json_data, queries, i, results, procs, jq_calls, exits,
                   seq_ret, new_version, handoffs, tasks>>

(* --------------------------- query_sequence ---------------------------- *)

\* mutant of Falsy: only None is skipped ("if query is None")
FalsyNoneOnly(query) == query = None

\* "if not query": None and the empty string
Falsy(query) == query = None \/ query = <<>>

\* if not query: continue
SeqSkip ==
    /\ pc = "loop" /\ i <= Len(queries)
    /\ Falsy(queries[i][2])
    /\ i' = i + 1
    /\ UNCHANGED <<entry, kind, eligible, checker_data, arg, pc, gets,
                   response, json_data, queries, results, procs, jq_calls,
                   exits, seq_ret, new_version, handoffs, ret, tasks>>

\* mutant of SeqQuery: the process is started and the loop goes on to the
\* next entry without awaiting it
SeqQueryNoAwait ==
    /\ pc = "loop" /\ i <= Len(queries)
    /\ ~Falsy(queries[i][2])
    /\ LET cmd == JqCmd(queries[i][2], results) IN
        /\ procs' = Append(procs, cmd)
        /\ jq_calls' = Append(jq_calls,
                              [pos |-> i, query |-> queries[i][2], cmd |-> cmd,
                               data |-> json_data])
    /\ i' = i + 1
    /\ pc' = "loop"
    /\ UNCHANGED <<entry, kind, eligible, checker_data, arg, gets, response,
                   json_data, queries, results, exits, seq_ret, new_version,
                   handoffs, ret, tasks>>

\* query_json(query, json_data, results) up to its await: the command is
\* built from the mapping as it is now, and the process is started
SeqQuery ==
    /\ pc = "loop" /\ i <= Len(queries)
    /\ ~Falsy(queries[i][2])
    /\ LET cmd == JqCmd(queries[i][2], results) IN
        /\ procs' = Append(procs, cmd)
        /\ jq_calls' = Append(jq_calls,
                              [pos |-> i, query |-> queries[i][2], cmd |-> cmd,
                               data |-> json_data])
    /\ pc' = "jq"
    /\ UNCHANGED <<entry, kind, eligible, checker_data, arg, gets, response,
                   json_data, queries, i, results, exits, seq_ret,
                   new_version, handoffs, ret, tasks>>

\* the process ended with status 0: results[result_key] = the stripped output
QueryReturns ==
    /\ pc = "jq"
    /\ LET r == QueryJsonResult(CommandRun(procs[1], json_data)) IN
        /\ r.raised = "none"
        /\ results' = DictSet(results, queries[i][1], r.value)
    /\ exits' = Append(exits, JqProcess(procs[1], json_data).exit)
    /\ procs' = <<>>
    /\ i' = i + 1
    /\ pc' = "loop"
    /\ UNCHANGED <<entry, kind, eligible, checker_data, arg, gets, response,
                   json_data, queries, jq_calls, seq_ret, new_version,
                   handoffs, ret, tasks>>

\* mutant of QueryRaises: the failure is swallowed and the loop goes on
QueryRaisesSwallowed ==
    /\ pc = "jq"
    /\ QueryJsonResult(CommandRun(procs[1], json_data)).raised # "none"
    /\ exits' = Append(exits, JqProcess(procs[1], json_data).exit)
    /\ procs' = <<>>
    /\ i' = i + 1
    /\ pc' = "loop"
    /\ UNCHANGED <<entry, kind, eligible, checker_data, arg, gets, response,
                   json_data, queries, results, jq_calls, seq_ret,
                   new_version, handoffs, ret, tasks>>

\* the process failed: the exception leaves query_sequence and its caller
QueryRaises ==
    /\ pc = "jq"
    /\ LET r == QueryJsonResult(CommandRun(procs[1], json_data)) IN
        /\ r.raised # "none"
        /\ ret' = Raised(r.raised)
    /\ exits' = Append(exits, JqProcess(procs[1], json_data).exit)
    /\ procs' = <<>>
    /\ pc' = "exit"
    /\ UNCHANGED <<entry, kind, eligible, checker_data, arg, gets, response,
                   json_data, queries, i, results, jq_calls, seq_ret,
                   new_version, handoffs, tasks>>

\* return results
SeqReturn ==
    /\ pc = "loop" /\ i > Len(queries)
    /\ seq_ret' = <<results>>
    /\ pc' = IF entry = "check" THEN kind ELSE "exit"
    /\ ret' = IF entry = "check" THEN ret ELSE Returned(None)
    /\ UNCHANGED <<entry, kind, eligible, checker_data, arg, gets, response,
                   json_data, queries, i, results, procs, jq_calls, exits,
                   new_version, handoffs, tasks>>

(* ----------------------------- _check_data ----------------------------- *)

\* mutant of UpdateVersion: version and url change places
UpdateVersionSwapped ==
    /\ pc = "data"
    /\ {"version", "url"} \subseteq DOMAIN seq_ret[1]
    /\ handoffs' = Append(handoffs,
                          [op |-> "_update_version",
                           version |-> seq_ret[1]["url"],
                           url |-> seq_ret[1]["version"],
                           follow_redirects |-> FALSE])
    /\ pc' = "exit"
    /\ ret' = Returned(None)
    /\ UNCHANGED <<entry, kind, eligible, checker_data, arg, gets, response,
                   json_data, queries, i, results, procs, jq_calls, exits,
                   seq_ret, new_version, tasks>>

\* latest_version = results["version"]; latest_url = results["url"];
\* await self._update_version(..., follow_redirects=False)
UpdateVersion ==
    /\ pc = "data"
    /\ {"version", "url"} \subseteq DOMAIN seq_ret[1]
    /\ handoffs' = Append(handoffs,
                          [op |-> "_update_version",
                           version |-> seq_ret[1]["version"],
                           url |-> seq_ret[1]["url"],
                           follow_redirects |-> FALSE])
    /\ pc' = "exit"
    /\ ret' = Returned(None)
    /\ UNCHANGED <<entry, kind, eligible, checker_data, arg, gets, response,
                   json_data, queries, i, results, procs, jq_calls, exits,
                   seq_ret, new_version, tasks>>

\* results["version"] or results["url"]: the key is not in the mapping
DataKeyError ==
    /\ pc = "data"
    /\ ~({"version", "url"} \subseteq DOMAIN seq_ret[1])
    /\ pc' = "exit"
    /\ ret' = Raised("KeyError")
    /\ UNCHANGED <<entry, kind, eligible, checker_data, arg, gets, response,
                   json_data, queries, i, results, procs, jq_calls, exits,
                   seq_ret, new_version, handoffs, tasks>>

(* ----------------------------- _check_git ------------------------------ *)

\* mutant of NewVersion: the tag and version arguments change places
NewVersionMisordered(res) ==
    IF "tag" \notin DOMAIN res THEN Raised("KeyError")
    ELSE LET ts == parse_timestamp(DictGet(res, "timestamp")) IN
         IF ts.raised # "none" THEN Raised(ts.raised)
         ELSE Returned(ExternalGitRef(current_version_url,
                                      DictGet(res, "commit"),
                                      DictGet(res, "version"),
                                      None,
                                      res["tag"],
                                      ts.value))

\* the ExternalGitRef built from the mapping, or the exception raised
\* while its arguments are evaluated (results["tag"] before parse_timestamp)
NewVersion(res) ==
    IF "tag" \notin DOMAIN res THEN Raised("KeyError")
    ELSE LET ts == parse_timestamp(DictGet(res, "timestamp")) IN
         IF ts.raised # "none" THEN Raised(ts.raised)
         ELSE Returned(ExternalGitRef(current_version_url,
                                      DictGet(res, "commit"),
                                      res["tag"],
                                      None,
                                      DictGet(res, "version"),
                                      ts.value))

\* mutant of NeedsRemote: an empty commit counts as no commit
NeedsRemoteFalsy(ref) == ref.commit = None \/ ref.commit = <<>>

\* new_version.commit is None
NeedsRemote(ref) == ref.commit = None

\* new_version = ExternalGitRef(...) raises
GitRefRaises ==
    /\ pc = "git"
    /\ NewVersion(seq_ret[1]).raised # "none"
    /\ pc' = "exit"
    /\ ret' = Raised(NewVersion(seq_ret[1]).raised)
    /\ UNCHANGED <<entry, kind, eligible, checker_data, arg, gets, response,
                   json_data, queries, i, results, procs, jq_calls, exits,
                   seq_ret, new_version, handoffs, tasks>>

\* the record is built and has no commit: await new_version.fetch_remote()
FetchRemote ==
    /\ pc = "git"
    /\ NewVersion(seq_ret[1]).raised = "none"
    /\ LET ref == NewVersion(seq_ret[1]).value IN
        /\ NeedsRemote(ref)
        /\ new_version' = ref
        /\ handoffs' = Append(handoffs, [op |-> "fetch_remote", ref |-> ref])
    /\ pc' = "remote"
    /\ UNCHANGED <<entry, kind, eligible, checker_data, arg, gets, response,
                   json_data, queries, i, results, procs, jq_calls, exits,
                   seq_ret, ret, tasks>>

\* mutant of RemoteReturns: what fetch_remote returns is dropped
RemoteReturnsDropped ==
    /\ pc = "remote"
    /\ handoffs' = Append(handoffs,
                          [op |-> "set_new_version", ref |-> new_version])
    /\ pc' = "exit"
    /\ ret' = Returned(None)
    /\ UNCHANGED <<entry, kind, eligible, checker_data, arg, gets, response,
                   json_data, queries, i, results, procs, jq_calls, exits,
                   seq_ret, new_version, tasks>>

\* fetch_remote returns the record with the commit its tag resolves to;
\* external_data.set_new_version(new_version)
RemoteReturns ==
    /\ pc = "remote"
    /\ \E c \in RemoteCommits :
        LET ref == [new_version EXCEPT !.commit = c] IN
        /\ new_version' = ref
        /\ handoffs' = Append(handoffs, [op |-> "set_new_version", ref |-> ref])
    /\ pc' = "exit"
    /\ ret' = Returned(None)
    /\ UNCHANGED <<entry, kind, eligible, checker_data, arg, gets, response,
                   json_data, queries, i, results, procs, jq_calls, exits,
                   seq_ret, tasks>>

\* fetch_remote fails (the remote cannot be reached, the tag is unknown)
RemoteRaises ==
    /\ pc = "remote"
    /\ pc' = "exit"
    /\ ret' = Raised("RemoteError")
    /\ UNCHANGED <<entry, kind, eligible, checker_data, arg, gets, response,
                   json_data, queries, i, results, procs, jq_calls, exits,
                   seq_ret, new_version, handoffs, tasks>>

\* the record is built and has a commit:
\* external_data.set_new_version(new_version)
SetNewVersion ==
    /\ pc = "git"
    /\ NewVersion(seq_ret[1]).raised = "none"
    /\ LET ref == NewVersion(seq_ret[1]).value IN
        /\ ~NeedsRemote(ref)
        /\ new_version' = ref
        /\ handoffs' = Append(handoffs, [op |-> "set_new_version", ref |-> ref])
    /\ pc' = "exit"
    /\ ret' = Returned(None)
    /\ UNCHANGED <<entry, kind, eligible, checker_data, arg, gets, response,
                   json_data, queries, i, results, procs, jq_calls, exits,
                   seq_ret, tasks>>

(* --------------------------- specifications ---------------------------- *)

Next ==
    \/ AssertFails
    \/ HttpGet
    \/ ResponseOpens
    \/ ResponseRead
    \/ NetworkError
    \/ CallQuerySequence
    \/ PlanKeyError
    \/ SeqSkip
    \/ SeqQuery
    \/ QueryReturns
    \/ QueryRaises
    \/ SeqReturn
    \/ UpdateVersion
    \/ DataKeyError
    \/ GitRefRaises
    \/ FetchRemote
    \/ RemoteReturns
    \/ RemoteRaises
    \/ SetNewVersion

Spec == Init /\ [][Next]_vars

(* ------------- query_sequence called on an arbitrary plan -------------- *)

SeqKeys == {"tag", "version", "url"}

\* the queries of the plans explored: unset, empty, a path, a reference to
\* the result of another entry
SeqQueries == {None, <<>>, <<".x">>} \cup {<<VarToken[k]>> : k \in SeqKeys}

\* plans of at most MaxPlanLen entries, each result key used once
Plans ==
    {p \in UNION {[1..n -> SeqKeys \X SeqQueries] : n \in 0..MaxPlanLen} :
        \A a, b \in DOMAIN p : a # b => p[a][1] # p[b][1]}

InitSeq ==
    /\ entry = "query_sequence"
    /\ kind = "data"
    /\ eligible = TRUE
    /\ checker_data = [o \in QueryOptions |-> None]
    /\ arg = None
    /\ pc = "loop"
    /\ gets = 0
    /\ response = "none"
    /\ json_data \in FlowDocs
    /\ queries \in Plans
    /\ i = 1
    /\ results = EmptyDict
    /\ procs = <<>>
    /\ jq_calls = <<>>
    /\ exits = <<>>
    /\ seq_ret = <<>>
    /\ new_version = NoRef
    /\ handoffs = <<>>
    /\ ret = Pending
    /\ tasks = <<>>

NextSeq ==
    \/ SeqSkip
    \/ SeqQuery
    \/ QueryReturns
    \/ QueryRaises
    \/ SeqReturn

SpecSeq == InitSeq /\ [][NextSeq]_vars

(* --------------------- query_json called directly ---------------------- *)

\* query strings: empty, a path, a variable, the filter without output, and
\* a token that is no jq program
JsonQueries == {<<>>, <<".x">>, <<"$tag">>, <<"empty">>, <<"]">>}

\* documents whose field x holds any JSON value
JsonDocs ==
    {[json |-> TRUE, obj |-> [f \in Fields |-> IF f = "x" THEN v ELSE JNull]] :
        v \in JsonValues(Chars, MaxStrLen)} \cup {NotJson}

\* variable mappings: none, or a binding of tag
JsonVariables == {EmptyDict} \cup {[k \in {"tag"} |-> v] : v \in Strings(Chars, 1)}

InitJson ==
    /\ entry = "query_json"
    /\ kind = "data"
    /\ eligible = TRUE
    /\ checker_data = [o \in QueryOptions |-> None]
    /\ arg \in [query : JsonQueries, variables : JsonVariables]
    /\ pc = "query_json"
    /\ gets = 0
    /\ response = "none"
    /\ json_data \in JsonDocs
    /\ queries = <<>>
    /\ i = 0
    /\ results = EmptyDict
    /\ procs = <<>>
    /\ jq_calls = <<>>
    /\ exits = <<>>
    /\ seq_ret = <<>>
    /\ new_version = NoRef
    /\ handoffs = <<>>
    /\ ret = Pending
    /\ tasks = <<>>

\* query_json up to its await
JsonRun ==
    /\ pc = "query_json"
    /\ procs' = Append(procs, JqCmd(arg.query, arg.variables))
    /\ pc' = "run"
    /\ UNCHANGED <<entry, kind, eligible, checker_data, arg, gets, response,
                   json_data, queries, i, results, jq_calls, exits, seq_ret,
                   new_version, handoffs, ret, tasks>>

\* the process has ended: query_json returns or raises
JsonExit ==
    /\ pc = "run"
    /\ ret' = QueryJsonResult(CommandRun(procs[1], json_data))
    /\ exits' = Append(exits, JqProcess(procs[1], json_data).exit)
    /\ procs' = <<>>
    /\ pc' = "exit"
    /\ UNCHANGED <<entry, kind, eligible, checker_data, arg, gets, response,
                   json_data, queries, i, results, jq_calls, seq_ret,
                   new_version, handoffs, tasks>>

NextJson ==
    \/ JsonRun
    \/ JsonExit

SpecJson == InitJson /\ [][NextJson]_vars

(* ------------------- parse_timestamp called directly ------------------- *)

InitTimestamp ==
    /\ entry = "parse_timestamp"
    /\ kind = "data"
    /\ eligible = TRUE
    /\ checker_data = [o \in QueryOptions |-> None]
    /\ arg \in {None} \cup Strings(Chars, MaxStrLen)
    /\ pc = "parse_timestamp"
    /\ gets = 0
    /\ response = "none"
    /\ json_data = NoData
    /\ queries = <<>>
    /\ i = 0
    /\ results = EmptyDict
    /\ procs = <<>>
    /\ jq_calls = <<>>
    /\ exits = <<>>
    /\ seq_ret = <<>>
    /\ new_version = NoRef
    /\ handoffs = <<>>
    /\ ret = Pending
    /\ tasks = <<>>

ParseTimestamp ==
    /\ pc = "parse_timestamp"
    /\ ret' = parse_timestamp(arg)
    /\ pc' = "exit"
    /\ UNCHANGED <<entry, kind, eligible, checker_data, arg, gets, response,
                   json_data, queries, i, results, procs, jq_calls, exits,
                   seq_ret, new_version, handoffs, tasks>>

NextTimestamp ==
    \/ ParseTimestamp

SpecTimestamp == InitTimestamp /\ [][NextTimestamp]_vars

(* ------------------------------ cancellation --------------------------- *)

\* mutant of CancelFetch: the response is not bound by an async with
CancelFetchLeaks ==
    /\ pc \in {"get", "read"}
    /\ pc' = "exit"
    /\ ret' = Raised("CancelledError")
    /\ UNCHANGED <<entry, kind, eligible, checker_data, arg, gets, response,
                   json_data, queries, i, results, procs, jq_calls, exits,
                   seq_ret, new_version, handoffs, tasks>>

\* the task is cancelled while it awaits session.get or response.read:
\* CancelledError is raised at the await, the async with releases the
\* response if it was entered, and except NETWORK_ERRORS lets it through
CancelFetch ==
    /\ pc \in {"get", "read"}
    /\ response' = IF response = "open" THEN "closed" ELSE response
    /\ pc' = "exit"
    /\ ret' = Raised("CancelledError")
    /\ UNCHANGED <<entry, kind, eligible, checker_data, arg, gets, json_data,
                   queries, i, results, procs, jq_calls, exits, seq_ret,
                   new_version, handoffs, tasks>>

\* the processes utils.Command.run leaves behind when it is cancelled
CommandCancelled(ps) == <<>>

\* the task is cancelled while query_json awaits Command.run: the
\* CancelledError is no CalledProcessError and leaves query_json,
\* query_sequence, the flow and check
CancelQuery ==
    /\ pc = "jq"
    /\ procs' = CommandCancelled(procs)
    /\ pc' = "exit"
    /\ ret' = Raised("CancelledError")
    /\ UNCHANGED <<entry, kind, eligible, checker_data, arg, gets, response,
                   json_data, queries, i, results, jq_calls, exits, seq_ret,
                   new_version, handoffs, tasks>>

NextCancel ==
    \/ Next
    \/ CancelFetch
    \/ CancelQuery

SpecCancel == Init /\ [][NextCancel]_vars

(* --------------------- several invocations of check -------------------- *)

\* how many invocations of check run on one event loop
MaxInvocations == 2

\* a checker_data with the five query options
Config(tag, commit, version, url, timestamp) ==
    [o \in QueryOptions |->
        CASE o = "tag-query" -> tag
          [] o = "commit-query" -> commit
          [] o = "version-query" -> version
          [] o = "url-query" -> url
          [] o = "timestamp-query" -> timestamp]

\* the records the concurrent invocations are started on
ConcRecords ==
    {[kind |-> "data", eligible |-> FALSE,
      checker_data |-> Config(None, None, <<".x">>, <<".y">>, None)],
     [kind |-> "data", eligible |-> TRUE,
      checker_data |-> Config(None, None, <<".x">>, <<"$version">>, None)],
     [kind |-> "data", eligible |-> TRUE,
      checker_data |-> Config(<<"$version">>, None, <<".x">>, <<".y">>, None)],
     [kind |-> "data", eligible |-> TRUE,
      checker_data |-> Config(<<".x">>, None, None, None, None)],
     [kind |-> "data", eligible |-> TRUE,
      checker_data |-> Config(None, None, <<>>, <<".y">>, None)],
     [kind |-> "git", eligible |-> TRUE,
      checker_data |-> Config(<<".x">>, None, <<".y">>, None, None)],
     [kind |-> "git", eligible |-> TRUE,
      checker_data |-> Config(<<".x">>, <<".y">>, None, None, None)],
     [kind |-> "git", eligible |-> TRUE,
      checker_data |-> Config(<<".x">>, <<".x">>, None, None, <<".y">>)]}

\* the frame of an invocation that has not run yet
StartFrame(rec) ==
    [entry |-> "check", kind |-> rec.kind, eligible |-> rec.eligible,
     checker_data |-> rec.checker_data, arg |-> None, pc |-> "check",
     gets |-> 0, response |-> "none", json_data |-> NoData, queries |-> <<>>,
     i |-> 0, results |-> EmptyDict, procs |-> <<>>, jq_calls |-> <<>>,
     exits |-> <<>>, seq_ret |-> <<>>, new_version |-> NoRef,
     handoffs |-> <<>>, ret |-> Pending]

\* the frame of the invocation that is running
Frame ==
    [entry |-> entry, kind |-> kind, eligible |-> eligible,
     checker_data |-> checker_data, arg |-> arg, pc |-> pc, gets |-> gets,
     response |-> response, json_data |-> json_data, queries |-> queries,
     i |-> i, results |-> results, procs |-> procs, jq_calls |-> jq_calls,
     exits |-> exits, seq_ret |-> seq_ret, new_version |-> new_version,
     handoffs |-> handoffs, ret |-> ret]

InitConc ==
    /\ entry = "check"
    /\ \E rec \in ConcRecords :
        /\ kind = rec.kind
        /\ eligible = rec.eligible
        /\ checker_data = rec.checker_data
    /\ arg = None
    /\ pc = "check"
    /\ gets = 0
    /\ response = "none"
    /\ json_data = NoData
    /\ queries = <<>>
    /\ i = 0
    /\ results = EmptyDict
    /\ procs = <<>>
    /\ jq_calls = <<>>
    /\ exits = <<>>
    /\ seq_ret = <<>>
    /\ new_version = NoRef
    /\ handoffs = <<>>
    /\ ret = Pending
    /\ tasks \in [1..(MaxInvocations - 1) -> {StartFrame(r) : r \in ConcRecords}]

\* where a coroutine gives the event loop the chance to run another one:
\* the awaits of lines 76, 77, 27 and 125, and its end
Suspended == pc \in {"get", "read", "jq", "remote", "exit"}

\* mutant of Switch: the mapping is not part of the frame, so the resumed
\* invocation finds the one the suspended invocation was filling
SwitchSharedResults ==
    /\ Suspended
    /\ \E n \in 1..Len(tasks) :
        /\ tasks[n].pc # "exit"
        /\ tasks' = [tasks EXCEPT ![n] = Frame]
        /\ entry' = tasks[n].entry
        /\ kind' = tasks[n].kind
        /\ eligible' = tasks[n].eligible
        /\ checker_data' = tasks[n].checker_data
        /\ arg' = tasks[n].arg
        /\ pc' = tasks[n].pc
        /\ gets' = tasks[n].gets
        /\ response' = tasks[n].response
        /\ json_data' = tasks[n].json_data
        /\ queries' = tasks[n].queries
        /\ i' = tasks[n].i
        /\ results' = results
        /\ procs' = tasks[n].procs
        /\ jq_calls' = tasks[n].jq_calls
        /\ exits' = tasks[n].exits
        /\ seq_ret' = tasks[n].seq_ret
        /\ new_version' = tasks[n].new_version
        /\ handoffs' = tasks[n].handoffs
        /\ ret' = tasks[n].ret

\* the running invocation is suspended at an await, or has ended, and the
\* event loop resumes another one that has not ended, where it was
\* suspended: each has its own external_data, locals, response and process
Switch ==
    /\ Suspended
    /\ \E n \in 1..Len(tasks) :
        /\ tasks[n].pc # "exit"
        /\ tasks' = [tasks EXCEPT ![n] = Frame]
        /\ entry' = tasks[n].entry
        /\ kind' = tasks[n].kind
        /\ eligible' = tasks[n].eligible
        /\ checker_data' = tasks[n].checker_data
        /\ arg' = tasks[n].arg
        /\ pc' = tasks[n].pc
        /\ gets' = tasks[n].gets
        /\ response' = tasks[n].response
        /\ json_data' = tasks[n].json_data
        /\ queries' = tasks[n].queries
        /\ i' = tasks[n].i
        /\ results' = tasks[n].results
        /\ procs' = tasks[n].procs
        /\ jq_calls' = tasks[n].jq_calls
        /\ exits' = tasks[n].exits
        /\ seq_ret' = tasks[n].seq_ret
        /\ new_version' = tasks[n].new_version
        /\ handoffs' = tasks[n].handoffs
        /\ ret' = tasks[n].ret

NextConc ==
    \/ Next
    \/ Switch

SpecConc == InitConc /\ [][NextConc]_vars

(* ------------------------------ claims --------------------------------- *)

\* the positions of the plan whose query is evaluated
Evaluated == {p \in 1..Len(queries) : queries[p][2] \notin {None, <<>>}}

\* the keys of the evaluated entries before position p
EarlierKeys(p) == {queries[q][1] : q \in {q \in Evaluated : q < p}}

\* the handoffs made to one collaborator
Handoffs(op) == {n \in 1..Len(handoffs) : handoffs[n].op = op}

\* C1: query_sequence never invokes the evaluator for an entry whose query
\* is None or the empty string, the key of such an entry is never in the
\* mapping, and the mapping it returns has exactly the keys of the entries
\* with a non-empty query.
C1_SkippedKeysOmitted ==
    /\ \A n \in 1..Len(jq_calls) :
        /\ jq_calls[n].pos \in Evaluated
        /\ jq_calls[n].query \notin {None, <<>>}
    /\ \A p \in 1..Len(queries) :
        queries[p][2] \in {None, <<>>} => queries[p][1] \notin DOMAIN results
    /\ seq_ret # <<>> =>
        DOMAIN seq_ret[1] = {queries[p][1] : p \in Evaluated}

\* query_sequence has returned a mapping for a plan with a None entry or an
\* empty entry next to an evaluated one
C1_Witness ==
    /\ seq_ret # <<>>
    /\ \E p, q \in 1..Len(queries) :
        /\ queries[p][2] \in {None, <<>>}
        /\ queries[q][1] \in DOMAIN seq_ret[1]

\* C2: the bindings given to the evaluator for the entry at position p are
\* exactly the results of the evaluated entries before p, each under its
\* own key with the value its query returned, and hold no key of position
\* p or later; a query that names the key of an earlier evaluated entry
\* reads that result, and one that names any other key fails.
C2_BindingsAreEarlierResults ==
    \A n \in 1..Len(jq_calls) :
        LET c == jq_calls[n] IN
        /\ DOMAIN c.cmd.args = EarlierKeys(c.pos)
        /\ \A q \in c.pos..Len(queries) : queries[q][1] \notin DOMAIN c.cmd.args
        /\ \A m \in 1..(n - 1) :
            c.cmd.args[queries[jq_calls[m].pos][1]]
                = QueryJsonResult(CommandRun(jq_calls[m].cmd,
                                             jq_calls[m].data)).value
        /\ \A k \in ResultKeys :
            (c.query = <<VarToken[k]>> /\ n <= Len(exits)) =>
                IF k \in EarlierKeys(c.pos)
                THEN /\ exits[n] = 0
                     /\ results[queries[c.pos][1]] = c.cmd.args[k]
                ELSE exits[n] # 0

\* a query at a later position has read the result of an earlier entry
C2_Witness ==
    \E n \in 1..Len(exits) :
        /\ exits[n] = 0
        /\ jq_calls[n].pos > 1
        /\ \E k \in EarlierKeys(jq_calls[n].pos) :
            jq_calls[n].query = <<VarToken[k]>>

\* a jq process of this invocation has failed
QueryFailed == \E n \in 1..Len(exits) : exits[n] # 0

\* C3: when the evaluation of a plan entry fails, the invocation ends at
\* once with CheckerQueryError: the failing evaluation is the last one,
\* query_sequence returns no mapping, and _update_version, fetch_remote and
\* set_new_version are not called.
C3_FailurePropagates ==
    QueryFailed =>
        /\ pc = "exit"
        /\ ret = Raised("CheckerQueryError")
        /\ \A n \in 1..Len(exits) : exits[n] # 0 => n = Len(jq_calls)
        /\ procs = <<>>
        /\ seq_ret = <<>>
        /\ handoffs = <<>>

\* a query of the git flow has failed after an earlier one had put its
\* result into the mapping, with entries of the plan still to come
C3_Witness ==
    /\ kind = "git"
    /\ QueryFailed
    /\ results # EmptyDict
    /\ \E p \in Evaluated : p > i

\* the GET was issued and the body was never read
FetchFailed == gets > 0 /\ json_data = NoData /\ pc \notin {"get", "read"}

\* C4: when the fetch fails with a transport error, check raises
\* CheckerQueryError with no query process invoked, no mapping built and no
\* version handed off.
C4_FetchFailureBeforeQueries ==
    FetchFailed =>
        /\ pc = "exit"
        /\ ret = Raised("CheckerQueryError")
        /\ jq_calls = <<>> /\ procs = <<>> /\ exits = <<>>
        /\ results = EmptyDict /\ seq_ret = <<>>
        /\ handoffs = <<>>

\* the fetch of a git record with every query configured has failed
C4_Witness ==
    /\ FetchFailed
    /\ kind = "git"
    /\ \A o \in {"tag-query", "commit-query", "version-query"} :
        checker_data[o] \notin {None, <<>>}

\* the record the git flow builds from a mapping
GitRecord(res) ==
    [url |-> current_version_url,
     commit |-> IF "commit" \in DOMAIN res THEN res["commit"] ELSE None,
     tag |-> res["tag"],
     branch |-> None,
     version |-> IF "version" \in DOMAIN res THEN res["version"] ELSE None,
     timestamp |-> IF "timestamp" \in DOMAIN res
                   THEN parse_timestamp(res["timestamp"]).value
                   ELSE None]

\* the git flow got a mapping with a tag and without a commit
CommitAbsent ==
    /\ kind = "git" /\ seq_ret # <<>>
    /\ "tag" \in DOMAIN seq_ret[1]
    /\ "commit" \notin DOMAIN seq_ret[1]

\* fetch_remote was called once on the partial record, before any
\* set_new_version, which got the record fetch_remote returned
RemoteResolvedOnce ==
    /\ Len(handoffs) >= 1
    /\ handoffs[1] = [op |-> "fetch_remote", ref |-> GitRecord(seq_ret[1])]
    /\ Handoffs("fetch_remote") = {1}
    /\ Handoffs("set_new_version") \subseteq {2}
    /\ Len(handoffs) <= 2
    /\ ret = Returned(None) => Handoffs("set_new_version") = {2}
    /\ \A n \in Handoffs("set_new_version") :
        /\ handoffs[n].ref = new_version
        /\ handoffs[n].ref # GitRecord(seq_ret[1])
        /\ handoffs[n].ref.commit \in RemoteCommits

\* C5 as stated: in the git flow, when the commit key is absent from the
\* mapping after all queries succeeded, fetch_remote is invoked exactly once
\* on the partial record, before set_new_version, which gets the record
\* fetch_remote returned.
C5_AsStated ==
    (CommitAbsent /\ pc = "exit") => RemoteResolvedOnce

\* the timestamp result, if there is one, is a well-formed literal
TimestampParses ==
    "timestamp" \in DOMAIN seq_ret[1] =>
        parse_timestamp(seq_ret[1]["timestamp"]).raised = "none"

\* C5, amended: in the git flow, when the commit key is absent from the
\* mapping after all queries succeeded and the timestamp result, if any, is
\* a well-formed literal, fetch_remote is invoked exactly once on the
\* partial record, before set_new_version, which gets the record
\* fetch_remote returned; with a malformed timestamp result neither is
\* called.
C5_RemoteResolvedOnce ==
    (CommitAbsent /\ pc = "exit") =>
        IF TimestampParses THEN RemoteResolvedOnce ELSE handoffs = <<>>

\* the git flow has ended after fetch_remote completed a record that has a
\* version and a timestamp
C5_Witness ==
    /\ CommitAbsent /\ pc = "exit"
    /\ ret = Returned(None)
    /\ {"version", "timestamp"} \subseteq DOMAIN seq_ret[1]
    /\ Len(handoffs) = 2

\* C6: in the git flow, when the commit key is in the mapping, whatever its
\* string, fetch_remote is never invoked and set_new_version gets the
\* constructed record, its commit, tag, version and timestamp taken from the
\* mapping.
C6_CommitPresentUsedAsIs ==
    (kind = "git" /\ seq_ret # <<>> /\ "commit" \in DOMAIN seq_ret[1]) =>
        /\ pc \in {"git", "exit"}
        /\ Handoffs("fetch_remote") = {}
        /\ \A n \in 1..Len(handoffs) :
            handoffs[n] = [op |-> "set_new_version",
                           ref |-> GitRecord(seq_ret[1])]
        /\ Len(handoffs) <= 1
        /\ (pc = "exit" /\ ret = Returned(None)) => Len(handoffs) = 1

\* set_new_version got a record whose commit is the empty string
C6_Witness ==
    /\ kind = "git" /\ pc = "exit"
    /\ Handoffs("set_new_version") = {1}
    /\ handoffs[1].ref.commit = <<>>
    /\ handoffs[1].ref.tag # <<>>

\* C7: in the plain flow, when all queries succeed, exactly one
\* _update_version call is made, with the results of the version query and
\* of the url query and follow_redirects false; the tag and commit results
\* are not forwarded; fetch_remote and set_new_version are never called.
C7_PlainHandoff ==
    kind = "data" =>
        /\ \A n \in 1..Len(handoffs) :
            handoffs[n] = [op |-> "_update_version",
                           version |-> seq_ret[1]["version"],
                           url |-> seq_ret[1]["url"],
                           follow_redirects |-> FALSE]
        /\ Len(handoffs) <= 1
        /\ (/\ pc = "exit" /\ seq_ret # <<>>
            /\ {"version", "url"} \subseteq DOMAIN seq_ret[1])
                => Len(handoffs) = 1

\* the plain flow has handed off a version and a url that differ, with tag
\* and commit results in the mapping
C7_Witness ==
    /\ kind = "data" /\ pc = "exit"
    /\ Len(handoffs) = 1
    /\ handoffs[1].version # handoffs[1].url
    /\ {"tag", "commit"} \subseteq DOMAIN seq_ret[1]

\* the values the caller's query yields by itself on the document
QueryYields ==
    IF JqCompiles(JqCmd(arg.query, arg.variables)) /\ json_data.json
    THEN JqQueryOutputs(JqCmd(arg.query, arg.variables), json_data)
    ELSE <<>>

\* C8: query_json fails with CheckerQueryError whenever the result of the
\* query is a boolean, null, an array or an object; it succeeds only for a
\* string or a number, and then returns its text stripped of surrounding
\* whitespace; every nonzero exit of the process is a CheckerQueryError.
C8_OnlyScalarsPass ==
    (entry = "query_json" /\ pc = "exit") =>
        /\ ret.raised \in {"none", "CheckerQueryError"}
        /\ exits[1] # 0 => ret = Raised("CheckerQueryError")
        /\ \A v \in {QueryYields[n] : n \in 1..Len(QueryYields)} :
            v.type \in {"boolean", "null", "array", "object"}
                => ret = Raised("CheckerQueryError")
        /\ ret.raised = "none" =>
            /\ Len(QueryYields) = 1
            /\ QueryYields[1].type \in {"string", "number"}
            /\ ret.value = Strip(QueryYields[1].text)
            /\ ret.value = <<>> \/
                (Head(ret.value) \notin Whitespace
                    /\ ret.value[Len(ret.value)] \notin Whitespace)

\* query_json has returned a string that had whitespace around it
C8_Witness ==
    /\ entry = "query_json" /\ pc = "exit"
    /\ ret.raised = "none"
    /\ QueryYields[1].type = "string"
    /\ ret.value # QueryYields[1].text
    /\ ret.value # <<>>

\* the literals datetime.fromisoformat or the Z shorthand make a timestamp
WellFormed(s) == s \in {<<"T">>, <<"T", "+00:00">>, <<"T", "Z">>}

\* C9: parse_timestamp maps None to None; maps a string ending in Z to the
\* timestamp of that string with the final Z replaced by +00:00, and
\* rewrites no other string; and reports every malformed literal as
\* CheckerQueryError, never as another error and never as None.
C9_TimestampNormalizer ==
    (entry = "parse_timestamp" /\ pc = "exit") =>
        /\ arg = None => ret = Returned(None)
        /\ (arg # None /\ arg # <<>> /\ arg[Len(arg)] = "Z") =>
            ret = parse_timestamp(SubSeq(arg, 1, Len(arg) - 1) \o <<"+00:00">>)
        /\ (arg # None /\ (arg = <<>> \/ arg[Len(arg)] # "Z")) =>
            /\ ret.raised = "none" <=> fromisoformat(arg).raised = "none"
            /\ ret.value = fromisoformat(arg).value
        /\ (arg # None /\ ~WellFormed(arg)) => ret = Raised("CheckerQueryError")
        /\ (arg # None /\ WellFormed(arg)) =>
            ret.raised = "none" /\ ret.value # None
        /\ ret.raised \in {"none", "CheckerQueryError"}

\* a literal ending in Z was parsed to a timestamp with the UTC offset
C9_Witness ==
    /\ entry = "parse_timestamp" /\ pc = "exit"
    /\ arg = <<"T", "Z">>
    /\ ret = Returned(Datetime("+00:00"))

\* C10: check on a record that is not eligible fails with an assertion
\* error, which is no CheckerQueryError, before the GET is issued: nothing
\* is fetched, no query is evaluated and no version is handed off.
C10_IneligibleAsserts ==
    (entry = "check" /\ ~eligible) =>
        /\ pc \in {"check", "exit"}
        /\ pc = "exit" => ret = Raised("AssertionError")
        /\ ret.raised # "CheckerQueryError"
        /\ gets = 0 /\ json_data = NoData
        /\ jq_calls = <<>> /\ procs = <<>>
        /\ handoffs = <<>>

\* check has ended on a record that is not eligible
C10_Witness ==
    /\ entry = "check" /\ ~eligible
    /\ pc = "exit"
    /\ checker_data["version-query"] \notin {None, <<>>}

(* ------------------------------ claim C11 ------------------------------ *)

\* the handoffs that carry a record the git flow built itself: every
\* fetch_remote, and a set_new_version that no fetch_remote preceded
Constructed ==
    {n \in 1..Len(handoffs) :
        \/ handoffs[n].op = "fetch_remote"
        \/ handoffs[n].op = "set_new_version" /\ Handoffs("fetch_remote") = {}}

\* what the tag query printed: the output of the process run for plan
\* entry 1, the "tag" entry of the git plan
TagQueryResults ==
    {QueryJsonResult(CommandRun(jq_calls[m].cmd, jq_calls[m].data)).value :
        m \in {k \in 1..Len(jq_calls) : jq_calls[k].pos = 1}}

\* C11: every record the git flow builds and passes to fetch_remote or,
\* with a commit, to set_new_version has a tag, which is what the tag query
\* printed, the url of the current reference and no branch.
C11_GitRecordFields ==
    kind = "git" =>
        \A n \in Constructed :
            /\ handoffs[n].ref.tag # None
            /\ TagQueryResults = {handoffs[n].ref.tag}
            /\ handoffs[n].ref.url = current_version_url
            /\ handoffs[n].ref.branch = None
            /\ handoffs[n].op = "set_new_version"
                   => handoffs[n].ref.commit # None

\* both kinds of built record were handed over, with a version that is
\* not the tag
C11_Witness ==
    /\ kind = "git" /\ pc = "exit"
    /\ \E n \in Constructed :
        /\ handoffs[n].ref.version \notin {None, handoffs[n].ref.tag}
        /\ handoffs[n].op = "set_new_version"

(* ------------------------------ claim C12 ------------------------------ *)

\* the GET was issued and its body is not read yet
FetchInFlight == pc \in {"get", "read"}

\* C12: within one check invocation the query processes run one after the
\* other: a process is started only once the body is read and the response
\* released, and only once every process started before it has ended, so
\* at most one is in flight, and none while the fetch is.
C12_QueriesSequential ==
    /\ Len(procs) <= 1
    /\ Len(procs) = Len(jq_calls) - Len(exits)
    /\ FetchInFlight => procs = <<>> /\ jq_calls = <<>>
    /\ jq_calls # <<>> => response = "closed" /\ json_data # NoData
    /\ \A m, n \in 1..Len(jq_calls) : m < n => jq_calls[m].pos < jq_calls[n].pos
    /\ procs # <<>> => pc = "jq"

\* a second process is in flight after the first one ended
C12_Witness ==
    /\ entry = "check" /\ Len(jq_calls) = 2 /\ Len(exits) = 1
    /\ Len(procs) = 1

(* ------------------------------ claim C13 ------------------------------ *)

\* the mapping query_sequence has after the first k entries of a plan when
\* it runs alone on a document, every query so far having succeeded
RECURSIVE SoloResults(_, _, _)
SoloResults(plan, data, k) ==
    IF k = 0 THEN EmptyDict
    ELSE LET before == SoloResults(plan, data, k - 1) IN
         IF plan[k][2] \in {None, <<>>} THEN before
         ELSE DictSet(before, plan[k][1],
                      query_json(plan[k][2], data, before).value)

\* the plan of a record
SoloPlan(f) ==
    IF f.kind = "git" THEN GitPlan(f.checker_data) ELSE DataPlan(f.checker_data)

\* every frame of the event loop: the running one and the suspended ones
Frames == {Frame} \cup {tasks[n] : n \in 1..Len(tasks)}

\* a frame holds what its invocation computes from its own record and its
\* own document, whatever the other invocations did meanwhile
Isolated(f) ==
    LET solo(k) == SoloResults(f.queries, f.json_data, k)
        whole == solo(Len(f.queries))
    IN
    /\ f.queries # <<>> => f.queries = SoloPlan(f)
    /\ f.pc \in {"loop", "jq"} => f.results = solo(f.i - 1)
    /\ \A m \in 1..Len(f.jq_calls) :
        /\ f.jq_calls[m].cmd.args = solo(f.jq_calls[m].pos - 1)
        /\ f.jq_calls[m].data = f.json_data
    /\ f.procs # <<>> => f.procs = <<f.jq_calls[Len(f.jq_calls)].cmd>>
    /\ f.seq_ret # <<>> => f.seq_ret = <<whole>>
    /\ \A n \in 1..Len(f.handoffs) :
        LET h == f.handoffs[n] IN
        /\ h.op = "_update_version"
               => h.version = whole["version"] /\ h.url = whole["url"]
        /\ h.op = "fetch_remote" => h.ref = GitRecord(whole)
        /\ h.op = "set_new_version"
               => \E c \in RemoteCommits \cup {GitRecord(whole).commit} :
                      h.ref = [GitRecord(whole) EXCEPT !.commit = c]

\* C13: when several check invocations on different records interleave at
\* their awaits, each one's mapping, variable bindings and handed-over
\* record are those it computes alone from its own record and document:
\* nothing one invocation produced is a binding or a result of another.
C13_InvocationsIsolated == \A f \in Frames : Isolated(f)

\* an invocation whose tag query read $version failed for want of a
\* binding, while a suspended invocation holds a version result
C13_Witness ==
    /\ pc = "exit" /\ ret = Raised("CheckerQueryError")
    /\ Len(jq_calls) = 1 /\ jq_calls[1].query = <<"$version">>
    /\ \E n \in 1..Len(tasks) :
        /\ tasks[n].pc = "jq"
        /\ "version" \in DOMAIN tasks[n].results

(* ------------------------------ claim C14 ------------------------------ *)

\* the invocation ended by the cancellation of its task
Cancelled == ret = Raised("CancelledError")

Mandatory == [data |-> {"version", "url"}, git |-> {"tag"}]

\* C15 as stated: for a configuration the schema accepts, the mandatory
\* queries being strings, possibly empty, a mapping the resolver returns
\* holds the mandatory results (version and url in the plain flow, tag in
\* the git flow), and no check on an eligible record ends with an error
\* for a missing key.
C15_MandatoryResultsPresent ==
    (/\ entry = "check" /\ eligible
     /\ CHECKER_DATA_SCHEMA(checker_data)
     /\ \A o \in Subscripted[kind] : checker_data[o] # None)
    => /\ seq_ret # <<>> => Mandatory[kind] \subseteq DOMAIN seq_ret[1]
       /\ ret.raised # "KeyError"

(* ------------------------------ claim C16 ------------------------------ *)

\* the order in which each flow evaluates its queries
PlanKeys ==
    [data |-> <<"tag", "commit", "version", "url">>,
     git |-> <<"tag", "commit", "version", "timestamp">>]

\* the key of the plan entry the m-th process was run for
CallKey(m) == queries[jq_calls[m].pos][1]

\* C16: the plain flow evaluates tag, commit, version, url in this order
\* and the git flow tag, commit, version, timestamp: the processes start in
\* plan order, each bound to the results of the entries evaluated before
\* it, so the url query reads tag, commit and version, the version query
\* never reads url, and the tag query has no binding.
C16_FixedOrder ==
    (entry = "check" /\ queries # <<>>) =>
        /\ [p \in 1..Len(queries) |-> queries[p][1]] = PlanKeys[kind]
        /\ \A m, n \in 1..Len(jq_calls) :
            m < n => jq_calls[m].pos < jq_calls[n].pos
        /\ \A m \in 1..Len(jq_calls) :
            LET bound == jq_calls[m].cmd.args IN
            /\ DOMAIN bound = EarlierKeys(jq_calls[m].pos)
            /\ \A k \in DOMAIN bound :
                \E e \in 1..(m - 1) :
                    /\ CallKey(e) = k
                    /\ exits[e] = 0
                    /\ bound[k] = QueryJsonResult(
                           CommandRun(jq_calls[e].cmd, jq_calls[e].data)).value
            /\ CallKey(m) = "url" =>
                DOMAIN bound =
                    {"tag", "commit", "version"} \cap
                        {queries[p][1] : p \in Evaluated}
            /\ CallKey(m) = "version" => "url" \notin DOMAIN bound
            /\ CallKey(m) = "tag" => bound = EmptyDict

\* the plain flow's url query read $version, with tag and commit bound too
C16_Witness ==
    /\ kind = "data" /\ pc = "exit" /\ ret = Returned(None)
    /\ Len(jq_calls) = 4
    /\ jq_calls[4].query = <<"$version">>
    /\ DOMAIN jq_calls[4].cmd.args = {"tag", "commit", "version"}
    /\ results["url"] = results["version"]
    /\ results["tag"] # results["version"]

(* ------------------------------ claim C17 ------------------------------ *)

\* the timestamp query of the git flow printed a literal that
\* parse_timestamp rejects
MalformedTimestamp ==
    /\ kind = "git" /\ seq_ret # <<>>
    /\ "timestamp" \in DOMAIN seq_ret[1]
    /\ parse_timestamp(seq_ret[1]["timestamp"]).raised # "none"

\* C17 as stated: in the git flow the timestamp is normalized after every
\* query of the plan succeeded and before fetch_remote or set_new_version
\* is called, and when the timestamp query printed a malformed literal the
\* invocation fails with CheckerQueryError and neither of them is called.
C17_TimestampBeforeHandoff ==
    (entry = "check" /\ kind = "git") =>
        /\ handoffs # <<>> =>
            /\ seq_ret # <<>>
            /\ ~MalformedTimestamp
            /\ handoffs[1].ref.timestamp =
                   parse_timestamp(DictGet(seq_ret[1], "timestamp")).value
        /\ MalformedTimestamp => handoffs = <<>>
        /\ (MalformedTimestamp /\ pc = "exit")
               => ret = Raised("CheckerQueryError")

\* the same with the tag query's result in the mapping
C17_WithTag ==
    (entry = "check" /\ kind = "git") =>
        /\ handoffs # <<>> =>
            /\ seq_ret # <<>>
            /\ ~MalformedTimestamp
            /\ handoffs[1].ref.timestamp =
                   parse_timestamp(DictGet(seq_ret[1], "timestamp")).value
        /\ MalformedTimestamp => handoffs = <<>>
        /\ (MalformedTimestamp /\ pc = "exit" /\ "tag" \in DOMAIN seq_ret[1])
               => ret = Raised("CheckerQueryError")

(* ------------------------------ claim C18 ------------------------------ *)

\* C18: nothing is retried: a check on an eligible record issues exactly
\* one GET, the process of a plan entry is run at most once, and after a
\* failed fetch or a failed query the invocation is at its end, with no
\* query after the failed fetch and none after the failed query.
C18_NoRetry ==
    entry = "check" =>
        /\ gets <= 1
        /\ (eligible /\ pc # "check") => gets = 1
        /\ Len(jq_calls) <= Len(queries)
        /\ \A m, n \in 1..Len(jq_calls) :
            jq_calls[m].pos = jq_calls[n].pos => m = n
        /\ FetchFailed => pc = "exit" /\ jq_calls = <<>> /\ procs = <<>>
        /\ QueryFailed =>
            /\ pc = "exit" /\ procs = <<>>
            /\ Len(exits) = Len(jq_calls)
            /\ \A n \in 1..Len(exits) : exits[n] # 0 => n = Len(exits)

\* the second query failed, entries of the plan being left
C18_Witness ==
    /\ entry = "check" /\ QueryFailed
    /\ Len(jq_calls) = 2 /\ exits[1] = 0
    /\ \E p \in Evaluated : p > jq_calls[2].pos
    /\ gets = 1

(* ------------------------------ claim C19 ------------------------------ *)

\* the handoffs that give a record its new version
VersionHandoffs ==
    Handoffs("_update_version") \cup Handoffs("set_new_version")

\* the assertion failed and nothing was done
InvariantViolation ==
    /\ ret = Raised("AssertionError")
    /\ gets = 0 /\ jq_calls = <<>> /\ handoffs = <<>>

\* the invocation failed with the checker's error and handed nothing over
QueryErrorOutcome ==
    /\ ret = Raised("CheckerQueryError")
    /\ VersionHandoffs = {}

\* the invocation returned after one handoff, to the flow's collaborator
SuccessOutcome ==
    /\ ret = Returned(None)
    /\ Cardinality(VersionHandoffs) = 1
    /\ \A n \in VersionHandoffs :
        handoffs[n].op = IF kind = "git" THEN "set_new_version"
                                         ELSE "_update_version"

\* C19 as stated: a check invocation that has ended has ended in one of
\* three ways: the assertion failed with no side effect, CheckerQueryError
\* with no version handed over, or success with exactly one version
\* handoff; a record never gets two handoffs from one invocation.
C19_ThreeOutcomes ==
    entry = "check" =>
        /\ Cardinality(VersionHandoffs) <= 1
        /\ pc = "exit" =>
            InvariantViolation \/ QueryErrorOutcome \/ SuccessOutcome

\* every awaited operation completing, the invocation ends
SpecFair == Spec /\ WF_vars(Next)
Terminates == <>(pc = "exit")

\* the outcomes of C19 and the two the code adds: a KeyError for a
\* missing mandatory query or result, and the error of fetch_remote
C19_FiveOutcomes ==
    entry = "check" =>
        /\ Cardinality(VersionHandoffs) <= 1
        /\ pc = "exit" =>
            \/ InvariantViolation
            \/ QueryErrorOutcome
            \/ SuccessOutcome
            \/ ret = Raised("KeyError") /\ handoffs = <<>>
            \/ /\ ret = Raised("RemoteError")
               /\ Handoffs("fetch_remote") = {1} /\ VersionHandoffs = {}

====
